---- MODULE Spec2Model ----
(***************************************************************************)
(* DataProvider (frontend/src/lib/config.ts, lines 18-258): the manager    *)
(* that owns the current snapshot of pipeline entries, its mode, the       *)
(* WebSocket / fallback-poll lifecycle and the listener registry, together *)
(* with the part of the JavaScript runtime it drives (sockets, interval    *)
(* timers, timeouts, pending fetches, localStorage); and the pure          *)
(* functions of the monitor page (unnamed/part_001) that turn a snapshot   *)
(* into the table view and a metrics response into chart points.           *)
(*                                                                         *)
(* Every callback of the event loop is one action.  A callback is computed *)
(* by an operator over a record of the whole state (Cur), named after the  *)
(* method it models, so that a method calling another is operator          *)
(* application; the field "thrown" carries an exception that is            *)
(* propagating.  Time is counted in milliseconds and advances in steps of  *)
(* the polling interval.                                                   *)
(***************************************************************************)
EXTENDS Integers, Sequences, FiniteSets, TLC

\* ----------------------------------------------------------------- bounds
MaxSockets == 1        \* WebSocket objects alive at the same time
MaxTimers == 2         \* interval timers alive at the same time
MaxReconnects == 1     \* pending reconnect timeouts
MaxUnsubs == 1         \* unsubscribe functions a client keeps
\* The same two resources in a session followed through several connection
\* attempts (SpecSession).
SessionSockets == 2
SessionReconnects == 2

\* ------------------------------------------------------ program constants
pollingInterval == 1000
ReconnectDelay == 5000

TimeStep == pollingInterval

\* ------------------------------------------------------------ value sets
Modes == {"mock", "real"}
NoListener == "none"
\* d1 and d2 only take the snapshot; "dDrop" calls, from within its callback,
\* the function subscribe returned for d1; "dAdd" calls subscribe(d2) when
\* it is given a generated mock update.
DataListeners == {"d1", "d2", "dThrow", "dDrop", "dAdd"}
ErrListeners == {"e1", "eThrow"}
\* A callback that raises when it is called.
Throws(l) == l \in {"dThrow", "eThrow"}

\* Snapshot values.  "empty" is the field initialiser [], "mock0" a copy of
\* mockCsvData, "m1" a result of generateMockUpdate(), "p1" a body of the
\* pull endpoint, "a1" an array parsed from a push message, "null" a JSON
\* value that is not an array.
MockUpdates == {"m1"}
PullPayloads == {"p1"}
ArrayValues == {"empty", "mock0", "a1"} \cup MockUpdates \cup PullPayloads
NonArrayValues == {"null"}
Values == ArrayValues \cup NonArrayValues

\* Texts of push messages: a JSON array of entries, a JSON value that is no
\* array, an array cut short.
WireTexts == {"[{\"id\":\"1\"}]", "null", "[{\"id\":"}

\* JSON.parse: the parsed value, or a SyntaxError for a text that is no JSON.
JSONParse(text) ==
  CASE text = "[{\"id\":\"1\"}]" -> [ok |-> TRUE, value |-> "a1"]
    [] text = "null" -> [ok |-> TRUE, value |-> "null"]
    [] OTHER -> [ok |-> FALSE, value |-> "SyntaxError"]

\* Call sites of fetchRealData: "auto" the initial fetch of live mode and the
\* fallback poll, "force" forceRefresh.
PullKinds == {"auto", "force"}
TimerIds == 1..MaxTimers
NoTimer == [kind |-> "none", rem |-> 0]

Range(q) == {q[i] : i \in 1..Len(q)}
\* Set.add / Set.delete on an insertion-ordered set.
SetAdd(q, x) == IF x \in Range(q) THEN q ELSE Append(q, x)
SetDelete(q, x) == SelectSeq(q, LAMBDA y : y # x)

VARIABLES
  mode, mockUpdateInterval, fallbackInterval, listeners, errorListeners,
  currentData, ws, clientInitialized,
  hasWindow, store, sockets, timers, reconnects, inflight, unsubs, timed,
  quota, op, called, errCalled, thrown

\* The state of the monitor page (unnamed/part_001, lines 61-86 and 645-646):
\* the entries it shows, its filters and sort order, the metrics it charts;
\* view, tokenChartData and costChartData are the values of the memos
\* filteredData, tokenChartData and costChartData at the last render.
VARIABLES
  csvData, filterText, statusFilter, priorityFilter, fileTypeFilter,
  modelFilter, fieldsFilter, date, sortConfig, view,
  metricsData, tokenMetricType, tokenChartData, costChartData

tableVars == <<csvData, filterText, statusFilter, priorityFilter, fileTypeFilter,
               modelFilter, fieldsFilter, date, sortConfig, view>>
chartVars == <<metricsData, tokenMetricType, tokenChartData, costChartData>>

managerVars ==
  <<mode, mockUpdateInterval, fallbackInterval, listeners, errorListeners,
    currentData, ws, clientInitialized,
    hasWindow, store, sockets, timers, reconnects, inflight, unsubs, timed,
    quota, op, called, errCalled, thrown>>

vars == <<managerVars, tableVars, chartVars>>

\* The WebSocket objects the runtime has room for.
SocketIds == DOMAIN sockets

\* The state a callback starts from: nothing called yet, nothing thrown.
Cur ==
  [mode |-> mode, mockUpdateInterval |-> mockUpdateInterval,
   fallbackInterval |-> fallbackInterval, listeners |-> listeners,
   errorListeners |-> errorListeners, currentData |-> currentData, ws |-> ws,
   clientInitialized |-> clientInitialized, hasWindow |-> hasWindow,
   store |-> store, sockets |-> sockets, timers |-> timers,
   reconnects |-> reconnects, inflight |-> inflight, unsubs |-> unsubs,
   timed |-> timed, quota |-> quota,
   called |-> <<>>, errCalled |-> <<>>, thrown |-> FALSE, blocked |-> FALSE]

\* ---------------------------------------------------------------- runtime
Min(S) == CHOOSE x \in S : \A y \in S : x <= y
FreeTimers(s) == {i \in TimerIds : s.timers[i].kind = "none"}
FreeSockets(s) == {i \in DOMAIN s.sockets : s.sockets[i] = "FREE"}

\* WebSocket.readyState of a socket object.
readyState(s, id) ==
  IF s.sockets[id] \in {"ERRORED", "CLOSED"} THEN "CLOSED" ELSE s.sockets[id]

\* A closed socket object nothing refers to any more is garbage.
Collect(s) ==
  [s EXCEPT !.sockets = [i \in DOMAIN s.sockets |->
      IF @[i] = "CLOSED" /\ s.ws # i THEN "FREE" ELSE @[i]]]

\* The time until a timer set now is due.  With timed = FALSE the order in
\* which timer callbacks run is left open: every timer is due at once.
Delay(s, ms) == IF s.timed THEN ms ELSE 0

\* setInterval(cb, config.pollingInterval), the handle stored in a field.
setInterval(s, kind, field) ==
  IF FreeTimers(s) = {} THEN [s EXCEPT !.blocked = TRUE]
  ELSE LET id == Min(FreeTimers(s))
       IN [s EXCEPT !.timers[id] = [kind |-> kind, rem |-> Delay(s, pollingInterval)],
                    ![field] = id]

clearInterval(s, id) ==
  IF id = 0 THEN s ELSE [s EXCEPT !.timers[id] = NoTimer]

\* setTimeout(reconnect, 5000): the handle is not kept.
setTimeout(s) ==
  IF Len(s.reconnects) >= s.quota.reconnects THEN [s EXCEPT !.blocked = TRUE]
  ELSE [s EXCEPT !.reconnects = Append(@, Delay(s, ReconnectDelay))]

\* ------------------------------------------------------ listener dispatch
\* What the body of a data callback does to the manager: the unsubscribe
\* function of d1 deletes d1 (lines 172-175), subscribe(d2) adds d2 and
\* calls it with the snapshot (lines 166-170).
Effect(s, l) ==
  CASE l = "dDrop" -> [s EXCEPT !.listeners = SetDelete(@, "d1")]
    [] l = "dAdd" /\ s.currentData \in MockUpdates ->
         [s EXCEPT !.listeners = SetAdd(@, "d2"),
                   !.called = Append(@, <<"d2", s.currentData>>)]
    [] OTHER -> s

\* listener(this.currentData)
Call(s, l) ==
  Effect([s EXCEPT !.called = Append(@, <<l, s.currentData>>),
                   !.thrown = Throws(l)], l)

\* this.listeners.forEach(listener => listener(this.currentData)): in
\* insertion order over the live Set, so that a listener deleted before its
\* turn is passed over and a listener added during the pass is visited; an
\* exception of a callback leaves forEach.
RECURSIVE ForEachListener(_, _)
ForEachListener(s, i) ==
  IF i > Len(s.listeners) THEN s
  ELSE LET l == s.listeners[i]
           s1 == Call(s, l)
           gone == Cardinality({k \in 1..i : s.listeners[k] \notin Range(s1.listeners)})
       IN IF s1.thrown THEN s1 ELSE ForEachListener(s1, i + 1 - gone)

notifyListeners(s) == ForEachListener(s, 1)

RECURSIVE ForEachErrorListener(_, _, _)
ForEachErrorListener(s, err, i) ==
  IF i > Len(s.errorListeners) THEN s
  ELSE LET l == s.errorListeners[i]
           s1 == [s EXCEPT !.errCalled = Append(@, <<l, err>>),
                           !.thrown = Throws(l)]
       IN IF s1.thrown THEN s1 ELSE ForEachErrorListener(s1, err, i + 1)

notifyErrorListeners(s, err) == ForEachErrorListener(s, err, 1)

\* A catch clause: the exception is consumed, the handler runs.
Caught(s) == [s EXCEPT !.thrown = FALSE]

\* ------------------------------------------------------------- the manager
\* The synchronous part of fetchRealData: the request leaves.  inflight
\* holds the kinds of call sites with a request pending, one or more.
fetchRealData(s, kind) == [s EXCEPT !.inflight = @ \cup {kind}]

\* The rest of fetchRealData, after the await: the response or the failure.
fetchRealDataDone(s, ok, data) ==
  IF ok
  THEN LET s1 == notifyListeners([s EXCEPT !.currentData = data])
       IN IF s1.thrown THEN notifyErrorListeners(Caught(s1), "listenerError")
          ELSE s1
  ELSE notifyErrorListeners(s, "fetchError")

initMockMode(s) ==
  LET s1 == notifyListeners([s EXCEPT !.currentData = "mock0"])
  IN IF s1.thrown THEN s1 ELSE setInterval(s1, "mock", "mockUpdateInterval")

\* The fallback started without the test of this.fallbackInterval.
startFallback_NoGuard(s) == setInterval(s, "poll", "fallbackInterval")

startFallback(s) ==
  IF s.fallbackInterval = 0 THEN setInterval(s, "poll", "fallbackInterval") ELSE s

\* createOk: whether new WebSocket(url) returns an object or throws.
connectWebSocket(s, createOk) ==
  LET s1 == [clearInterval(s, s.fallbackInterval) EXCEPT !.fallbackInterval = 0]
  IN IF createOk
     THEN IF FreeSockets(Collect([s1 EXCEPT !.ws = 0])) = {}
          THEN [s1 EXCEPT !.blocked = TRUE]
          ELSE LET s2 == Collect([s1 EXCEPT !.ws = 0])
                   id == Min(FreeSockets(s2))
               IN [s2 EXCEPT !.sockets[id] = "CONNECTING", !.ws = id]
     ELSE LET s2 == notifyErrorListeners(s1, "createError")
          IN IF s2.thrown THEN s2 ELSE startFallback(s2)

initRealMode(s, createOk) == connectWebSocket(fetchRealData(s, "auto"), createOk)

init(s, createOk) ==
  IF s.mode = "mock" THEN initMockMode(s) ELSE initRealMode(s, createOk)

cleanupResources(s) ==
  LET s1 == [clearInterval(s, s.mockUpdateInterval) EXCEPT !.mockUpdateInterval = 0]
      s2 == [clearInterval(s1, s1.fallbackInterval) EXCEPT !.fallbackInterval = 0]
  IN IF s2.ws = 0 THEN s2
     ELSE Collect([s2 EXCEPT
            !.sockets[s2.ws] = IF @ = "OPEN" THEN "CLOSING" ELSE @,
            !.ws = 0])

\* switchMode without the test of line 208.
switchMode_NoGuard(s, newMode, createOk) ==
  LET s1 == IF s.hasWindow THEN [s EXCEPT !.store = newMode] ELSE s
      s2 == cleanupResources(s1)
  IN init([s2 EXCEPT !.mode = newMode], createOk)

\* switchMode without the store write of lines 211-213.
switchMode_NoStore(s, newMode, createOk) ==
  IF s.mode = newMode THEN s
  ELSE LET s2 == cleanupResources(s)
       IN init([s2 EXCEPT !.mode = newMode], createOk)

switchMode(s, newMode, createOk) ==
  IF s.mode = newMode THEN s
  ELSE LET s1 == IF s.hasWindow THEN [s EXCEPT !.store = newMode] ELSE s
           s2 == cleanupResources(s1)
       IN init([s2 EXCEPT !.mode = newMode], createOk)

cleanup(s) ==
  [cleanupResources(s) EXCEPT !.listeners = <<>>, !.errorListeners = <<>>]

\* The method subscribe calls on its first use in a browser; the class body
\* does not define it.
initializeForClient(s) == [s EXCEPT !.clientInitialized = TRUE]

\* The closure subscribe returns, as its caller holds it: used once it has
\* been called, again once subscribe has been called with one of its
\* callbacks after that.
Closure(l, e) == [l |-> l, e |-> e, used |-> FALSE, again |-> FALSE]

Resubscribed(U, l, e) ==
  {IF u.used /\ (u.l = l \/ (u.e # NoListener /\ u.e = e))
     THEN [u EXCEPT !.again = TRUE] ELSE u : u \in U}

\* subscribe without line 170: the new listener is not called.
subscribe_NoReplay(s, l, e, keep) ==
  LET s0 == IF s.hasWindow /\ ~s.clientInitialized THEN initializeForClient(s) ELSE s
      s1 == [s0 EXCEPT !.listeners = SetAdd(@, l),
                       !.errorListeners = IF e # NoListener THEN SetAdd(@, e) ELSE @]
      s2 == [s1 EXCEPT !.unsubs = Resubscribed(@, l, e)]
  IN IF ~keep THEN s2 ELSE [s2 EXCEPT !.unsubs = @ \cup {Closure(l, e)}]

subscribe(s, l, e, keep) ==
  LET s0 == IF s.hasWindow /\ ~s.clientInitialized THEN initializeForClient(s) ELSE s
      s1 == [s0 EXCEPT !.listeners = SetAdd(@, l),
                       !.errorListeners = IF e # NoListener THEN SetAdd(@, e) ELSE @]
      s2 == [Call(s1, l) EXCEPT !.unsubs = Resubscribed(@, l, e)]
  IN IF s2.thrown \/ ~keep THEN s2
     ELSE [s2 EXCEPT !.unsubs = @ \cup {Closure(l, e)}]

\* A closure that removes the listener registered last, whichever it is.
unsubscribe_PopLast(s, u) ==
  [s EXCEPT !.listeners = SubSeq(@, 1, Len(@) - 1),
            !.errorListeners = IF u.e # NoListener THEN SetDelete(@, u.e) ELSE @]

unsubscribe(s, u) ==
  [s EXCEPT !.listeners = SetDelete(@, u.l),
            !.errorListeners = IF u.e # NoListener THEN SetDelete(@, u.e) ELSE @]

forceRefresh(s, upd) ==
  IF s.mode = "mock" THEN notifyListeners([s EXCEPT !.currentData = upd])
  ELSE fetchRealData(s, "force")

\* --------------------------------------------------- WebSocket callbacks
onmessage(s, text) ==
  LET p == JSONParse(text)
  IN IF ~p.ok THEN notifyErrorListeners(s, p.value)
     ELSE LET s1 == notifyListeners([s EXCEPT !.currentData = p.value])
          IN IF s1.thrown THEN notifyErrorListeners(Caught(s1), "listenerError")
             ELSE s1

onerror(s) ==
  LET s1 == notifyErrorListeners(s, "wsError")
  IN IF s1.thrown THEN s1 ELSE startFallback(s1)

onclose(s) ==
  LET s1 == notifyErrorListeners(s, "wsClosed")
  IN IF s1.thrown THEN s1 ELSE setTimeout(startFallback(s1))

onopen(s) == [clearInterval(s, s.fallbackInterval) EXCEPT !.fallbackInterval = 0]

\* The callback of the reconnect timeout.
reconnect(s, createOk) ==
  IF s.mode = "real" /\ (s.ws = 0 \/ readyState(s, s.ws) = "CLOSED")
  THEN connectWebSocket(s, createOk)
  ELSE s

\* ------------------------------------------------------------ monitor page
\* Bounds of the table and chart inputs.
MaxEntries == 3        \* entries of a snapshot that is sorted
MaxFiltered == 2       \* entries of a snapshot that is filtered

Statuses == {"enqueued", "running", "ok", "error"}
stageKeys == <<"classification", "sampling", "gemini_query", "normalization">>
\* entry.stage_stats?.[key] of a stage that has no statistics.
Absent == "absent"
NoStages == [k \in Range(stageKeys) |-> Absent]

\* A string is the sequence of its characters.
ToLowerChar(c) ==
  CASE c = "A" -> "a" [] c = "B" -> "b" [] c = "C" -> "c" [] c = "D" -> "d"
    [] c = "E" -> "e"
    [] c = "I" -> "i" [] c = "L" -> "l" [] c = "M" -> "m" [] c = "P" -> "p"
    [] c = "S" -> "s" [] c = "V" -> "v" [] c = "Z" -> "z"
    [] OTHER -> c
toLowerCase(str) == [i \in 1..Len(str) |-> ToLowerChar(str[i])]
includes(str, t) ==
  \E k \in 0..(Len(str) - Len(t)) : SubSeq(str, k + 1, k + Len(t)) = t
\* A suffix test that accepts the text anywhere in the string.
endsWith_Anywhere(str, t) == includes(str, t)

endsWith(str, t) ==
  Len(t) <= Len(str) /\ SubSeq(str, Len(str) - Len(t) + 1, Len(str)) = t

\* String.prototype.localeCompare on the status names.
Collation == <<"enqueued", "error", "ok", "running">>
Rank(x) == CHOOSE i \in 1..Len(Collation) : Collation[i] = x
localeCompare(x, y) ==
  IF Rank(x) < Rank(y) THEN -1 ELSE IF Rank(x) > Rank(y) THEN 1 ELSE 0

\* A CsvProcessingEntry; priority 0, insertion_date 0 and ai_model "" are
\* fields that are missing.
Entry(filename, status, stages, priority, model, fields, inserted) ==
  [id |-> 0, filename |-> filename, status |-> status, stage_stats |-> stages,
   priority |-> priority, ai_model |-> model, extracted_fields |-> fields,
   insertion_date |-> inserted]

\* The entries of a snapshot, their ids distinct.
WithIds(q) == [i \in 1..Len(q) |-> [q[i] EXCEPT !.id = i]]
Snapshots(E, n) == {WithIds(q) : q \in UNION {[1..k -> E] : k \in 0..n}}

\* getOverallStatus with the test for running before the test for error.
getOverallStatus_RunningFirst(entry) ==
  LET allStats == [i \in 1..Len(stageKeys) |-> entry.stage_stats[stageKeys[i]]]
      some(st) == \E i \in 1..Len(allStats) : allStats[i] # Absent /\ allStats[i] = st
  IN IF entry.status = "running" \/ some("running") THEN "running"
     ELSE IF entry.status = "error" \/ some("error") THEN "error"
     ELSE IF entry.status = "ok" THEN "ok"
     ELSE "enqueued"

getOverallStatus(entry) ==
  LET allStats == [i \in 1..Len(stageKeys) |-> entry.stage_stats[stageKeys[i]]]
      some(st) == \E i \in 1..Len(allStats) : allStats[i] # Absent /\ allStats[i] = st
  IN IF entry.status = "error" \/ some("error") THEN "error"
     ELSE IF entry.status = "running" \/ some("running") THEN "running"
     ELSE IF entry.status = "ok" THEN "ok"
     ELSE "enqueued"

\* The state the memo filteredData is computed from.
Page ==
  [csvData |-> csvData, filterText |-> filterText, statusFilter |-> statusFilter,
   priorityFilter |-> priorityFilter, fileTypeFilter |-> fileTypeFilter,
   modelFilter |-> modelFilter, fieldsFilter |-> fieldsFilter, date |-> date,
   sortConfig |-> sortConfig]

\* The priority comparator with the older insertion date first.
comparePriority_OldestFirst(p, a, b) ==
  LET c2 == (IF b.status = "running" THEN 1 ELSE 0)
            - (IF a.status = "running" THEN 1 ELSE 0)
      c3 == IF c2 = 0
            THEN (IF a.priority = 0 THEN 3 ELSE a.priority)
                 - (IF b.priority = 0 THEN 3 ELSE b.priority)
            ELSE c2
  IN IF c3 = 0 THEN a.insertion_date - b.insertion_date ELSE c3

\* The comparator of the priority key, before the direction is applied.
comparePriority(p, a, b) ==
  LET c1 == IF p.priorityFilter # {}
            THEN (IF a.priority \in p.priorityFilter THEN 0 ELSE 1)
                 - (IF b.priority \in p.priorityFilter THEN 0 ELSE 1)
            ELSE 0
      c2 == IF c1 = 0
            THEN (IF b.status = "running" THEN 1 ELSE 0)
                 - (IF a.status = "running" THEN 1 ELSE 0)
            ELSE c1
      c3 == IF c2 = 0
            THEN (IF a.priority = 0 THEN 3 ELSE a.priority)
                 - (IF b.priority = 0 THEN 3 ELSE b.priority)
            ELSE c2
  IN IF c3 = 0 THEN b.insertion_date - a.insertion_date ELSE c3

comparison(p, a, b) ==
  IF p.sortConfig.key = "priority" THEN comparePriority(p, a, b)
  ELSE IF p.sortConfig.key = "insertion_date" THEN a.insertion_date - b.insertion_date
  ELSE localeCompare(a[p.sortConfig.key], b[p.sortConfig.key])

\* A comparator that ignores the direction.
compare_NoDirection(p, a, b) == comparison(p, a, b)

\* The function given to sort.
compare(p, a, b) ==
  IF p.sortConfig.direction = "ascending" THEN comparison(p, a, b)
  ELSE 0 - comparison(p, a, b)

\* Array.prototype.sort: stable.  x goes behind the elements that do not
\* sort after it.
Insert(p, q, x) ==
  LET k == CHOOSE i \in 0..Len(q) :
             /\ \A j \in 1..i : compare(p, q[j], x) <= 0
             /\ i < Len(q) => compare(p, q[i + 1], x) > 0
  IN SubSeq(q, 1, k) \o <<x>> \o SubSeq(q, k + 1, Len(q))

RECURSIVE sort(_, _)
sort(p, q) ==
  IF q = <<>> THEN <<>>
  ELSE Insert(p, sort(p, SubSeq(q, 1, Len(q) - 1)), q[Len(q)])

\* The memo filteredData without its sort.
filteredUnsorted(p) ==
  LET f1 == IF p.statusFilter # {}
            THEN SelectSeq(p.csvData, LAMBDA e : getOverallStatus(e) \in p.statusFilter)
            ELSE p.csvData
      f2 == IF p.filterText # <<>>
            THEN SelectSeq(f1, LAMBDA e :
                   includes(toLowerCase(e.filename), toLowerCase(p.filterText)))
            ELSE f1
      f3 == IF p.priorityFilter # {}
            THEN SelectSeq(f2, LAMBDA e : e.priority \in p.priorityFilter)
            ELSE f2
      f4 == IF p.fileTypeFilter # {}
            THEN SelectSeq(f3, LAMBDA e :
                   \E ext \in p.fileTypeFilter : endsWith(toLowerCase(e.filename), ext))
            ELSE f3
      f5 == IF p.modelFilter # {}
            THEN SelectSeq(f4, LAMBDA e : e.ai_model # "" /\ e.ai_model \in p.modelFilter)
            ELSE f4
      f6 == IF p.fieldsFilter # <<>>
            THEN SelectSeq(f5, LAMBDA e :
                   \E i \in 1..Len(e.extracted_fields) :
                     includes(toLowerCase(e.extracted_fields[i]),
                              toLowerCase(p.fieldsFilter)))
            ELSE f5
      f7 == IF p.date.from # 0
            THEN SelectSeq(f6, LAMBDA e :
                   e.insertion_date # 0 /\ e.insertion_date >= p.date.from)
            ELSE f6
  IN IF p.date.to # 0
     THEN SelectSeq(f7, LAMBDA e : e.insertion_date # 0 /\ e.insertion_date <= p.date.to)
     ELSE f7

filteredData(p) ==
  IF p.sortConfig.key # "null" THEN sort(p, filteredUnsorted(p))
  ELSE filteredUnsorted(p)

\* The date range the page starts with (the last two hours) and the one
\* handleClearFilters sets; instants are counted in hours.
DefaultDate == [from |-> 2, to |-> 4]
NoDate == [from |-> 0, to |-> 0]
DefaultSort == [key |-> "priority", direction |-> "ascending"]

\* The first render: no entries, no filter but the date range.
FirstPage ==
  [csvData |-> <<>>, filterText |-> <<>>, statusFilter |-> {},
   priorityFilter |-> {}, fileTypeFilter |-> {}, modelFilter |-> {},
   fieldsFilter |-> <<>>, date |-> DefaultDate, sortConfig |-> DefaultSort]

\* A render of the table from state p.
TableIs(p) ==
  /\ csvData = p.csvData
  /\ filterText = p.filterText
  /\ statusFilter = p.statusFilter
  /\ priorityFilter = p.priorityFilter
  /\ fileTypeFilter = p.fileTypeFilter
  /\ modelFilter = p.modelFilter
  /\ fieldsFilter = p.fieldsFilter
  /\ date = p.date
  /\ sortConfig = p.sortConfig
  /\ view = filteredData(p)

\* A state setter of the table and the render that follows it.
SetTable(p) ==
  /\ csvData' = p.csvData
  /\ filterText' = p.filterText
  /\ statusFilter' = p.statusFilter
  /\ priorityFilter' = p.priorityFilter
  /\ fileTypeFilter' = p.fileTypeFilter
  /\ modelFilter' = p.modelFilter
  /\ fieldsFilter' = p.fieldsFilter
  /\ date' = p.date
  /\ sortConfig' = p.sortConfig
  /\ view' = filteredData(p)
  /\ UNCHANGED <<managerVars, chartVars>>

\* MultiSelectFilter.handleSelect: the value is unselected, or selected.
handleSelect(selectedValues, value) ==
  IF value \in selectedValues THEN selectedValues \ {value}
  ELSE selectedValues \cup {value}

SetStatusFilter(value) ==
  SetTable([Page EXCEPT !.statusFilter = handleSelect(@, value)])
SetPriorityFilter(value) ==
  SetTable([Page EXCEPT !.priorityFilter = handleSelect(@, value)])
SetFileTypeFilter(value) ==
  SetTable([Page EXCEPT !.fileTypeFilter = handleSelect(@, value)])
SetModelFilter(value) ==
  SetTable([Page EXCEPT !.modelFilter = handleSelect(@, value)])
SetFilterText(text) ==
  /\ text # filterText
  /\ SetTable([Page EXCEPT !.filterText = text])
SetFieldsFilter(text) ==
  /\ text # fieldsFilter
  /\ SetTable([Page EXCEPT !.fieldsFilter = text])
SetDate(range) ==
  /\ range # date
  /\ SetTable([Page EXCEPT !.date = range])

handleClearFilters ==
  SetTable([Page EXCEPT !.filterText = <<>>, !.statusFilter = {},
                        !.priorityFilter = {}, !.fileTypeFilter = {},
                        !.modelFilter = {}, !.fieldsFilter = <<>>,
                        !.date = NoDate])

requestSort(key) ==
  LET direction == IF sortConfig.key = key /\ sortConfig.direction = "ascending"
                   THEN "descending" ELSE "ascending"
  IN SetTable([Page EXCEPT !.sortConfig = [key |-> key, direction |-> direction]])

\* ------------------------------------------------------------------ charts
MaxSamples == 3        \* timestamps of a metrics response

oneMin == 60 * 1000
fifteenMin == 15 * oneMin
thirtyMin == 30 * oneMin
oneHour == 60 * oneMin
oneDay == 24 * oneHour

\* useState<any>(null): no metrics response yet.
NoMetrics == [buckets |-> <<>>,
              token_consumption |-> [input |-> <<>>, output |-> <<>>, total |-> <<>>],
              cost |-> <<>>, loaded |-> FALSE]

MaxOf(S) == CHOOSE x \in S : \A y \in S : x >= y

\* The ladder with exclusive upper bounds.
bucketSizeMs_Exclusive(totalMs) ==
  IF totalMs < 2 * oneHour THEN fifteenMin
  ELSE IF totalMs < 4 * oneHour THEN thirtyMin
  ELSE IF totalMs < oneDay THEN oneHour
  ELSE IF totalMs < 3 * oneDay THEN 6 * oneHour
  ELSE IF totalMs < 7 * oneDay THEN 12 * oneHour
  ELSE oneDay

\* The bucket width chosen for a span in milliseconds.
bucketSizeMs(totalMs) ==
  IF totalMs <= 2 * oneHour THEN fifteenMin
  ELSE IF totalMs <= 4 * oneHour THEN thirtyMin
  ELSE IF totalMs <= oneDay THEN oneHour
  ELSE IF totalMs <= 3 * oneDay THEN 6 * oneHour
  ELSE IF totalMs <= 7 * oneDay THEN 12 * oneHour
  ELSE oneDay

\* The inner for loop: from index i on, the indices of the timestamps inside
\* [bucketStart, bucketEnd), up to the first timestamp at or behind bucketEnd.
RECURSIVE Scan(_, _, _, _, _)
Scan(times, i, bucketStart, bucketEnd, indices) ==
  IF i > Len(times) THEN [i |-> i, indices |-> indices]
  ELSE IF times[i] >= bucketStart /\ times[i] < bucketEnd
       THEN Scan(times, i + 1, bucketStart, bucketEnd, Append(indices, i))
  ELSE IF times[i] >= bucketEnd THEN [i |-> i, indices |-> indices]
  ELSE Scan(times, i + 1, bucketStart, bucketEnd, indices)

\* The while loop: one bucket per step, the index i shared by all steps.
RECURSIVE Walk(_, _, _, _, _, _)
Walk(times, maxTime, size, bucketStart, i, out) ==
  IF bucketStart > maxTime THEN out
  ELSE LET bucketEnd == bucketStart + size
           r == Scan(times, i, bucketStart, bucketEnd, <<>>)
       IN Walk(times, maxTime, size, bucketEnd, r.i,
               [out EXCEPT !.bucketStarts = Append(@, bucketStart),
                           !.bucketIndices = Append(@, r.indices)])

\* bucketStarts are the instants the labels are formatted from; indices
\* count from 1.
getDynamicBuckets(buckets) ==
  IF buckets = <<>>
  THEN [bucketSizeMs |-> 0, bucketStarts |-> <<>>, bucketIndices |-> <<>>]
  ELSE LET times == buckets
           minTime == Min(Range(times))
           maxTime == MaxOf(Range(times))
           size == bucketSizeMs(maxTime - minTime)
       IN Walk(times, maxTime, size, minTime, 1,
               [bucketSizeMs |-> size, bucketStarts |-> <<>>, bucketIndices |-> <<>>])

\* values[i] || 0
ValueAt(values, i) == IF i \in 1..Len(values) THEN values[i] ELSE 0

\* indices.reduce((acc, i) => acc + (values[i] || 0), 0)
RECURSIVE SumAt(_, _)
SumAt(values, indices) ==
  IF indices = <<>> THEN 0
  ELSE ValueAt(values, indices[1]) + SumAt(values, Tail(indices))

\* The points of a chart for one array of the response.
ChartData(m, values) ==
  IF ~m.loaded THEN <<>>
  ELSE LET b == getDynamicBuckets(m.buckets)
       IN [idx \in 1..Len(b.bucketStarts) |->
             [time |-> b.bucketStarts[idx], value |-> SumAt(values, b.bucketIndices[idx])]]

tokenChartDataOf(m, type) == ChartData(m, m.token_consumption[type])
costChartDataOf(m) == ChartData(m, m.cost)

\* A render of the charts.
ChartIs(m, type) ==
  /\ metricsData = m
  /\ tokenMetricType = type
  /\ tokenChartData = tokenChartDataOf(m, type)
  /\ costChartData = costChartDataOf(m)

\* The table and the charts before any data arrived.
NoPage == TableIs(FirstPage) /\ ChartIs(NoMetrics, "total")

setTokenMetricType(type) ==
  /\ type # tokenMetricType
  /\ tokenMetricType' = type
  /\ tokenChartData' = tokenChartDataOf(metricsData, type)
  /\ UNCHANGED <<metricsData, costChartData, managerVars, tableVars>>

\* ------------------------------------------------------------------ events
Commit(r, o) ==
  /\ ~r.blocked
  /\ mode' = r.mode
  /\ mockUpdateInterval' = r.mockUpdateInterval
  /\ fallbackInterval' = r.fallbackInterval
  /\ listeners' = r.listeners
  /\ errorListeners' = r.errorListeners
  /\ currentData' = r.currentData
  /\ ws' = r.ws
  /\ clientInitialized' = r.clientInitialized
  /\ hasWindow' = r.hasWindow
  /\ store' = r.store
  /\ sockets' = r.sockets
  /\ timers' = r.timers
  /\ reconnects' = r.reconnects
  /\ inflight' = r.inflight
  /\ unsubs' = r.unsubs
  /\ timed' = r.timed
  /\ quota' = r.quota
  /\ op' = o
  /\ called' = r.called
  /\ errCalled' = r.errCalled
  /\ thrown' = r.thrown
  /\ UNCHANGED <<tableVars, chartVars>>

\* The callback that ran last and its arguments.
Op5(name, arg, arg2, flag, flag2) ==
  [name |-> name, arg |-> arg, arg2 |-> arg2, flag |-> flag, flag2 |-> flag2]
Op(name, arg, flag) == Op5(name, arg, "", flag, FALSE)

\* The error and the close event of a failed socket are fired by one task:
\* nothing else runs between the two.
Idle == \A id \in SocketIds : sockets[id] # "ERRORED"

\* The sockets and reconnect timeouts the runtime lets exist at a time.
Quota == [sockets |-> MaxSockets, reconnects |-> MaxReconnects]
SessionQuota == [sockets |-> SessionSockets, reconnects |-> SessionReconnects]

\* The state before the constructor body runs: the field initialisers.
Fields(w, st, tm) ==
  [mode |-> "mock", mockUpdateInterval |-> 0, fallbackInterval |-> 0,
   listeners |-> <<>>, errorListeners |-> <<>>, currentData |-> "empty",
   ws |-> 0, clientInitialized |-> FALSE, hasWindow |-> w, store |-> st,
   sockets |-> [i \in 1..Quota.sockets |-> "FREE"], timers |-> [i \in TimerIds |-> NoTimer],
   reconnects |-> <<>>, inflight |-> {}, unsubs |-> {},
   timed |-> tm, quota |-> Quota,
   called |-> <<>>, errCalled |-> <<>>, thrown |-> FALSE, blocked |-> FALSE]

\* localStorage.getItem('dataSourceMode'): null is "none".
StoreValues == {"none", "mock", "real"}

constructor(s, createOk) ==
  LET savedMode == IF s.hasWindow THEN s.store ELSE "none"
  IN init([s EXCEPT !.mode = IF savedMode # "none" THEN savedMode ELSE "mock"],
          createOk)

\* new DataProvider() in a browser (w) or on the server, with the clock
\* modelled (tm) or not, in a runtime with the quota q.
New(w, tm, q) ==
  \E st \in StoreValues, createOk \in BOOLEAN :
    /\ ~w => st = "none"
    /\ LET r == constructor([Fields(w, st, tm) EXCEPT
                                !.quota = q,
                                !.sockets = [i \in 1..q.sockets |-> "FREE"]],
                             createOk)
       IN /\ ~r.blocked
          /\ (r.mode = "mock" => createOk)
          /\ mode = r.mode
          /\ mockUpdateInterval = r.mockUpdateInterval
          /\ fallbackInterval = r.fallbackInterval
          /\ listeners = r.listeners
          /\ errorListeners = r.errorListeners
          /\ currentData = r.currentData
          /\ ws = r.ws
          /\ clientInitialized = r.clientInitialized
          /\ hasWindow = r.hasWindow
          /\ store = r.store
          /\ sockets = r.sockets
          /\ timers = r.timers
          /\ reconnects = r.reconnects
          /\ inflight = r.inflight
          /\ unsubs = r.unsubs
          /\ timed = r.timed
          /\ quota = r.quota
          /\ op = Op("constructor", "", createOk)
          /\ called = r.called
          /\ errCalled = r.errCalled
          /\ thrown = r.thrown

Construct(w, tm) == New(w, tm, Quota)

Init == (\E w \in BOOLEAN : Construct(w, FALSE)) /\ NoPage

\* The subscribe calls of the clients: a data callback alone, or with an
\* error callback; one client's callbacks raise.
Callers == {<<"d1", NoListener>>, <<"d1", "e1">>, <<"dThrow", "eThrow">>}

\* keep: whether the caller keeps the function subscribe returns.
Subscribe(l, e, keep) ==
  /\ Idle
  /\ keep => Cardinality(unsubs \cup {Closure(l, e)}) <= MaxUnsubs
  /\ Commit(subscribe(Cur, l, e, keep), Op("subscribe", l, e # NoListener))

Unsubscribe(u) ==
  /\ Idle
  /\ u \in unsubs
  /\ Commit([unsubscribe(Cur, u) EXCEPT
               !.unsubs = (@ \ {u}) \cup {[u EXCEPT !.used = TRUE, !.again = FALSE]}],
            Op5("unsubscribe", u.l, u.e, u.used, u.again))

ForceRefresh(upd) ==
  /\ Idle
  /\ mode # "mock" => upd = "m1"
  /\ Commit(forceRefresh(Cur, upd), Op("forceRefresh", mode, mode = "mock"))

SwitchMode(newMode, createOk) ==
  /\ Idle
  /\ (newMode = "mock" \/ newMode = mode) => createOk
  /\ Commit(switchMode(Cur, newMode, createOk), Op("switchMode", newMode, newMode # mode))

Cleanup ==
  /\ Idle
  /\ Commit(cleanup(Cur), Op("cleanup", "", TRUE))

\* The mock interval callback (initMockMode).
MockTimerFire(id, upd) ==
  /\ Idle
  /\ timers[id].kind = "mock" /\ timers[id].rem = 0
  /\ Commit(notifyListeners([Cur EXCEPT !.timers[id].rem = Delay(Cur, pollingInterval),
                                        !.currentData = upd]),
            Op("mockTimer", "", TRUE))

\* The fallback interval callback: () => this.fetchRealData().
PollTimerFire(id) ==
  /\ Idle
  /\ timers[id].kind = "poll" /\ timers[id].rem = 0
  /\ Commit(fetchRealData([Cur EXCEPT !.timers[id].rem = Delay(Cur, pollingInterval)], "auto"),
            Op("pollTimer", "", TRUE))

ReconnectFire(createOk) ==
  /\ Idle
  /\ reconnects # <<>> /\ Head(reconnects) = 0
  /\ LET willConnect == mode = "real" /\ (ws = 0 \/ readyState(Cur, ws) = "CLOSED")
     IN /\ ~willConnect => createOk
        /\ Commit(reconnect([Cur EXCEPT !.reconnects = Tail(@)], createOk),
                  Op("reconnectTimer", "", willConnect))

\* Time passes when no timer is due.
Tick ==
  /\ Idle
  /\ timed
  /\ \A id \in TimerIds : timers[id].kind # "none" => timers[id].rem > 0
  /\ \A i \in 1..Len(reconnects) : reconnects[i] > 0
  /\ (\E id \in TimerIds : timers[id].kind # "none") \/ reconnects # <<>>
  /\ Commit([Cur EXCEPT
        !.timers = [id \in TimerIds |->
            IF @[id].kind = "none" THEN @[id]
            ELSE [@[id] EXCEPT !.rem = @ - TimeStep]],
        !.reconnects = [i \in 1..Len(@) |-> @[i] - TimeStep]],
       Op("tick", "", TRUE))

\* A pending request of a call site completes; more: others of that call
\* site are still pending.
PullDone(kind, ok, data, more) ==
  /\ Idle
  /\ kind \in inflight
  /\ ~ok => data = "p1"
  /\ Commit(fetchRealDataDone(
              [Cur EXCEPT !.inflight = IF more THEN @ ELSE @ \ {kind}], ok, data),
            Op("pullDone", kind, ok))

WsOpen(id) ==
  /\ Idle
  /\ sockets[id] = "CONNECTING"
  /\ Commit(onopen([Cur EXCEPT !.sockets[id] = "OPEN"]), Op("wsOpen", "", ws = id))

WsMessage(id, text) ==
  /\ Idle
  /\ sockets[id] = "OPEN"
  /\ Commit(onmessage(Cur, text), Op("wsMessage", text, ws = id))

\* The connection failed: readyState becomes CLOSED, the error event is fired;
\* the close event follows (WsClose).
WsError(id) ==
  /\ Idle
  /\ sockets[id] \in {"CONNECTING", "OPEN", "CLOSING"}
  /\ Commit(onerror([Cur EXCEPT !.sockets[id] = "ERRORED"]), Op("wsError", "", ws = id))

\* The close event: after an error, or of a connection closed in order.
WsClose(id) ==
  /\ sockets[id] \in {"ERRORED", "OPEN", "CLOSING"}
  /\ Idle \/ sockets[id] = "ERRORED"
  /\ Commit(Collect(onclose([Cur EXCEPT !.sockets[id] = "CLOSED"])),
            Op("wsClose", "", ws = id))

Callbacks ==
  \/ \E c \in Callers : Subscribe(c[1], c[2], FALSE)
  \/ \E upd \in MockUpdates : ForceRefresh(upd)
  \/ \E m \in Modes, createOk \in BOOLEAN : SwitchMode(m, createOk)
  \/ Cleanup
  \/ \E id \in TimerIds, upd \in MockUpdates : MockTimerFire(id, upd)
  \/ \E id \in TimerIds : PollTimerFire(id)
  \/ \E createOk \in BOOLEAN : ReconnectFire(createOk)
  \/ \E kind \in PullKinds, ok \in BOOLEAN, data \in PullPayloads, more \in BOOLEAN :
        PullDone(kind, ok, data, more)
  \/ \E id \in SocketIds : WsOpen(id)
  \/ \E id \in SocketIds, text \in WireTexts : WsMessage(id, text)
  \/ \E id \in SocketIds : WsError(id)
  \/ \E id \in SocketIds : WsClose(id)

\* The order of timer callbacks left open.
Next == Callbacks

Spec == Init /\ [][Next]_vars

\* The listener registry: callers that keep and call the functions
\* subscribe returns, between updates of the snapshot.
NextRegistry ==
  \/ \E c \in Callers, keep \in BOOLEAN : Subscribe(c[1], c[2], keep)
  \/ \E u \in unsubs : Unsubscribe(u)
  \/ \E m \in Modes, createOk \in BOOLEAN : SwitchMode(m, createOk)
  \/ Cleanup
  \/ \E id \in TimerIds, upd \in MockUpdates : MockTimerFire(id, upd)
  \/ \E kind \in PullKinds, ok \in BOOLEAN, data \in PullPayloads, more \in BOOLEAN :
        PullDone(kind, ok, data, more)

SpecRegistry == Init /\ [][NextRegistry]_vars

\* With the clock: a timer callback runs when its delay has passed.
InitTimed == (\E w \in BOOLEAN : Construct(w, TRUE)) /\ NoPage

NextTimed == Callbacks \/ Tick

SpecTimed == InitTimed /\ [][NextTimed]_vars

TypeOK ==
  /\ mode \in Modes
  /\ mockUpdateInterval \in 0..MaxTimers
  /\ fallbackInterval \in 0..MaxTimers
  /\ currentData \in Values
  /\ ws \in 0..SessionSockets
  /\ Range(listeners) \subseteq DataListeners
  /\ Range(errorListeners) \subseteq ErrListeners


\* ------------------------------------------------- the page's pure functions
\* The page is rendered beside the manager the server constructed.
ManagerIdle == Construct(FALSE, FALSE)

\* Derived status: one entry of every combination of the entry status and
\* the four stage statuses, the status filter toggled by the user.
StatusEntries ==
  {Entry(<<"a", ".", "c", "s", "v">>, st, stages, 3, "Gemini 2.5 Flash", <<>>, 3) :
     st \in Statuses, stages \in [Range(stageKeys) -> Statuses \cup {Absent}]}

InitStatus ==
  /\ ManagerIdle
  /\ ChartIs(NoMetrics, "total")
  /\ \E e \in StatusEntries : TableIs([FirstPage EXCEPT !.csvData = WithIds(<<e>>)])

NextStatus == \E value \in Statuses : SetStatusFilter(value)

SpecStatus == InitStatus /\ [][NextStatus]_vars

\* Sort: snapshots of entries that differ in status, priority and insertion
\* date (priority 3 at three dates, priority 1 at the middle one), no filter
\* set, the column headers clicked by the user.
PriorityDates == {<<3, 1>>, <<3, 2>>, <<3, 3>>, <<1, 2>>}
SortEntries ==
  {Entry(<<"a", ".", "c", "s", "v">>, st, NoStages, pd[1], "Gemini 2.5 Flash", <<>>, pd[2]) :
     st \in Statuses, pd \in PriorityDates}
SortKeys == {"priority", "insertion_date", "status"}

InitSort ==
  /\ ManagerIdle
  /\ ChartIs(NoMetrics, "total")
  /\ \E q \in Snapshots(SortEntries, MaxEntries) :
        TableIs([FirstPage EXCEPT !.csvData = q, !.date = NoDate])

NextSort == \E key \in SortKeys : requestSort(key)

SpecSort == InitSort /\ [][NextSort]_vars

\* Filters: snapshots of entries that differ in every filtered field.
FilterEntries ==
  {Entry(<<"a", ".", "c", "s", "v">>, "ok", NoStages, 1,
         "Gemini 2.5 Flash", << <<"E", "m", "a", "i", "l">> >>, 2),
   Entry(<<"A", "B", ".", "C", "S", "V">>, "ok",
         [NoStages EXCEPT !["gemini_query"] = "error"], 3,
         "Gemini 2.5 Pro", << <<"i", "d">>, <<"e", "m", "a", "i", "l">> >>, 4),
   Entry(<<"b", ".", "z", "i", "p">>, "enqueued",
         [NoStages EXCEPT !["classification"] = "running"], 3, "", <<>>, 3),
   Entry(<<"a", ".", "c", "s", "v", ".", "z", "i", "p">>, "running", NoStages, 1,
         "Gemini 2.5 Flash", << <<"i", "d">> >>, 0),
   Entry(<<"B", ".", "z", "i", "p">>, "error", NoStages, 5,
         "Gemini 2.5 Pro", << <<"E", "M", "A", "I", "L">> >>, 5),
   Entry(<<"a", "b", ".", "c", "s", "v">>, "enqueued", NoStages, 0,
         "Gemini 2.0 Flash", << <<"M", "a", "i", "l">> >>, 1)}

FilterTexts == {<<>>, <<"a", "b">>}
FieldsTexts == {<<>>, <<"M", "a", "i", "l">>}
DateRanges == {NoDate, DefaultDate, [from |-> 2, to |-> 0]}

InitFilter ==
  /\ ManagerIdle
  /\ ChartIs(NoMetrics, "total")
  /\ \E q \in Snapshots(FilterEntries, MaxFiltered) :
        TableIs([FirstPage EXCEPT !.csvData = q])

NextFilter ==
  \/ \E value \in {"ok", "error"} : SetStatusFilter(value)
  \/ \E value \in {1} : SetPriorityFilter(value)
  \/ \E value \in {<<".", "c", "s", "v">>} : SetFileTypeFilter(value)
  \/ \E value \in {"Gemini 2.5 Flash"} : SetModelFilter(value)
  \/ \E text \in FilterTexts : SetFilterText(text)
  \/ \E text \in FieldsTexts : SetFieldsFilter(text)
  \/ \E range \in DateRanges : SetDate(range)
  \/ handleClearFilters

SpecFilter == InitFilter /\ [][NextFilter]_vars

\* Charts: metrics responses of up to MaxSamples samples at instants around
\* the steps of the width ladder, in any order.
Instants ==
  {0, 2 * oneHour, 3 * oneHour, 4 * oneHour, oneDay, 3 * oneDay, 7 * oneDay,
   8 * oneDay}
SampleValues ==
  {[input |-> 1, output |-> 2, total |-> 3, cost |-> 5],
   [input |-> 4, output |-> 0, total |-> 4, cost |-> 1]}
MetricSamples == {[timestamp |-> t, v |-> v] : t \in Instants, v \in SampleValues}

\* The response of the metrics endpoint for a sequence of samples.
Metrics(q) ==
  [buckets |-> [i \in 1..Len(q) |-> q[i].timestamp],
   token_consumption |->
     [input |-> [i \in 1..Len(q) |-> q[i].v.input],
      output |-> [i \in 1..Len(q) |-> q[i].v.output],
      total |-> [i \in 1..Len(q) |-> q[i].v.total]],
   cost |-> [i \in 1..Len(q) |-> q[i].v.cost],
   loaded |-> TRUE]

TokenMetricTypes == {"total", "input", "output"}

InitChart ==
  /\ ManagerIdle
  /\ TableIs(FirstPage)
  /\ \E q \in UNION {[1..k -> MetricSamples] : k \in 0..MaxSamples} :
        ChartIs(Metrics(q), "total")

NextChart == \E type \in TokenMetricTypes : setTokenMetricType(type)

SpecChart == InitChart /\ [][NextChart]_vars

\* ------------------------------------------------------------------ claims

\* C1: in every reachable state, of either mode and any connection state, a
\* subscribe(onData, onError?) step calls onData exactly once, with the
\* snapshot the manager held when subscribe was called, before it returns:
\* no step that delivers an update lies between registration and replay.
C1_SubscribeReplaysSnapshot ==
  [][op'.name = "subscribe" =>
       /\ called' = << <<op'.arg, currentData>> >>
       /\ currentData' = currentData
       /\ op'.arg \in Range(listeners')]_vars

\* A late subscriber in live mode, after a pull installed a snapshot.
C1_Witness ==
  /\ op.name = "subscribe" /\ mode = "real"
  /\ currentData = "p1" /\ called = << <<"d1", "p1">> >>

Called(q) == {q[i][1] : i \in 1..Len(q)}

\* C2: a failed pull (initial fetch, fallback poll or forceRefresh in live
\* mode) notifies every error listener and leaves the snapshot as it was; no
\* data listener is called for it.
C2_FailedPullKeepsSnapshot ==
  [][(op'.name = "pullDone" /\ ~op'.flag) =>
       /\ currentData' = currentData
       /\ called' = <<>>
       /\ Called(errCalled') = Range(errorListeners)]_vars

\* C3: a push message whose payload is not a well-formed array of entries
\* notifies every error listener, leaves the snapshot as it was and calls no
\* data listener.
Malformed(text) == ~JSONParse(text).ok \/ JSONParse(text).value \notin ArrayValues

C3_MalformedPushRejected ==
  [][(op'.name = "wsMessage" /\ Malformed(op'.arg)) =>
       /\ currentData' = currentData
       /\ called' = <<>>
       /\ Called(errCalled') = Range(errorListeners)]_vars

\* C4: a dispatch pass reaches every registered listener, also when one of
\* them throws: whenever a snapshot was dispatched every data listener has
\* been called, and whenever an error was dispatched every error listener.
C4_DispatchIsolated ==
  /\ (called # <<>> /\ op.name # "subscribe") => Called(called) = Range(listeners)
  /\ errCalled # <<>> => Called(errCalled) = Range(errorListeners)

\* C5: switchMode(m) with m the current mode changes no timer, channel,
\* listener set, snapshot or stored preference and calls no listener.
C5_SwitchSameModeNoOp ==
  [][(op'.name = "switchMode" /\ ~op'.flag) =>
       /\ UNCHANGED <<mode, mockUpdateInterval, fallbackInterval, timers, ws,
                       sockets, reconnects, inflight, listeners, errorListeners,
                       currentData, store>>
       /\ called' = <<>> /\ errCalled' = <<>> /\ ~thrown']_vars

\* switchMode('real') in live mode, polling as fallback, with a subscriber.
C5_Witness ==
  /\ op.name = "switchMode" /\ ~op.flag /\ op.arg = "real"
  /\ fallbackInterval # 0 /\ listeners # <<>>

\* Every listener of q called once, in order, with the snapshot d.
Dispatch(q, d) == [i \in 1..Len(q) |-> <<q[i], d>>]

\* C6: switchMode('mock') in live mode with the fallback poll timer active
\* returns with the poll timer cancelled, no push channel held, exactly one
\* mock-generation timer running and every data listener called with the
\* freshly installed mock snapshot.
C6_SwitchToMockWhilePolling ==
  [][(/\ op'.name = "switchMode" /\ op'.arg = "mock"
      /\ mode = "real" /\ fallbackInterval # 0) =>
       /\ fallbackInterval' = 0
       /\ \A id \in TimerIds : timers'[id].kind # "poll"
       /\ ws' = 0
       /\ Cardinality({id \in TimerIds : timers'[id].kind = "mock"}) = 1
       /\ mockUpdateInterval' # 0
       /\ currentData' = "mock0"
       /\ called' = Dispatch(listeners, "mock0")
       /\ ~thrown']_vars

\* C7: an error or close event of the push channel in live mode with no
\* fallback poll timer running starts one inside the callback; and after a
\* close the poll timer is due before the reconnect timeout that the close
\* scheduled (1000 ms against 5000 ms), so a pull is issued before the
\* reconnect attempt runs.
C7_FallbackBeforeReconnect ==
  [][(op'.name \in {"wsError", "wsClose"} /\ mode = "real") =>
       /\ fallbackInterval = 0 =>
            /\ fallbackInterval' # 0
            /\ timers'[fallbackInterval'] = [kind |-> "poll", rem |-> pollingInterval]
       /\ op'.name = "wsClose" =>
            /\ fallbackInterval' # 0
            /\ reconnects' # <<>>
            /\ timers'[fallbackInterval'].rem < reconnects'[Len(reconnects')]]_vars

\* C8: in live mode the manager is never left with the channel down and no
\* reconnect attempt pending or in progress.
C8_NeverTerminal ==
  (Idle /\ mode = "real") =>
     \/ ws # 0 /\ sockets[ws] \in {"CONNECTING", "OPEN"}
     \/ reconnects # <<>>

Removed(l, e, L, E) ==
  l \notin Range(L) /\ (e # NoListener => e \notin Range(E))

\* C9 as stated: the first call of the function subscribe returned removes
\* its listeners, every later call leaves both listener sets unchanged,
\* whatever subscribe calls happened in between.
C9_UnsubscribeIdempotentAlways ==
  [][op'.name = "unsubscribe" =>
       IF ~op'.flag
       THEN Removed(op'.arg, op'.arg2, listeners', errorListeners')
       ELSE listeners' = listeners /\ errorListeners' = errorListeners]_vars

\* C9, amended: the first call removes its listeners; a later call leaves
\* both listener sets unchanged unless subscribe was called with one of its
\* two callbacks since its previous call.
C9_UnsubscribeIdempotent ==
  [][op'.name = "unsubscribe" =>
       /\ Removed(op'.arg, op'.arg2, listeners', errorListeners')
       /\ (op'.flag /\ ~op'.flag2) =>
            listeners' = listeners /\ errorListeners' = errorListeners]_vars

\* A second call of the closure of (d1, e1) after another client subscribed.
C9_Witness ==
  /\ op = Op5("unsubscribe", "d1", "e1", TRUE, FALSE)
  /\ listeners = <<"dThrow">> /\ errorListeners = <<"eThrow">>

\* C10: forceRefresh in mock mode installs a newly generated snapshot and
\* calls every data listener with it; in live mode it issues exactly one
\* pull, whose success alone replaces the snapshot and notifies the data
\* listeners, and whose failure does not reach the caller as an exception.
C10_ForceRefresh ==
  [][/\ (op'.name = "forceRefresh" /\ op'.flag) =>
          /\ currentData' \in MockUpdates
          /\ called' = Dispatch(listeners, currentData')
     /\ (op'.name = "forceRefresh" /\ ~op'.flag) =>
          /\ inflight' = inflight \cup {"force"}
          /\ UNCHANGED <<currentData, timers, sockets, ws, reconnects>>
          /\ called' = <<>> /\ errCalled' = <<>>
     /\ (op'.name = "pullDone" /\ op'.arg = "force") =>
          IF op'.flag
          THEN currentData' \in PullPayloads /\ called' = Dispatch(listeners, currentData')
          ELSE currentData' = currentData /\ called' = <<>> /\ ~thrown']_vars

\* The mode a manager constructed now, in this environment, starts in.
ReloadedMode(w, st) ==
  {constructor(Fields(w, st, FALSE), createOk).mode : createOk \in BOOLEAN}

\* C11: switchMode(m) with m not the current mode makes getCurrentMode
\* return m and, in a browser, writes m to the store, so that a manager
\* constructed after it starts in mode m; a manager constructed with an
\* empty store, the first one included, starts in mock mode.
C11_StoreRoundTrip ==
  /\ (op.name = "constructor" /\ store = "none") => mode = "mock"
  /\ [][(op'.name = "switchMode" /\ op'.flag) =>
          /\ mode' = op'.arg
          /\ hasWindow =>
               /\ store' = op'.arg
               /\ ReloadedMode(TRUE, store') = {op'.arg}
          /\ ReloadedMode(hasWindow, "none") = {"mock"}]_vars

\* switchMode('real') in a browser whose store was empty, a listener of the
\* manager throwing during the switch back to mock afterwards.
C11_Witness ==
  /\ op.name = "switchMode" /\ op.flag /\ op.arg = "mock"
  /\ hasWindow /\ store = "mock" /\ mode = "mock" /\ thrown
\* The interval timers of a kind that are active.
ActiveTimers(kind) == {id \in TimerIds : timers[id].kind = kind}

\* C20: in every reachable state at most one fallback-poll timer and at
\* most one mock-generation timer are active, and a mock-generation timer is
\* active only while the mode is mock.
C20_AtMostOneTimerEach ==
  /\ Cardinality(ActiveTimers("poll")) <= 1
  /\ Cardinality(ActiveTimers("mock")) <= 1
  /\ ActiveTimers("mock") # {} => mode = "mock"

\* Live mode polling as fallback after the channel closed, a reconnect
\* pending.
C20_Witness ==
  /\ op.name = "wsClose" /\ mode = "real" /\ reconnects # <<>>
  /\ Cardinality(ActiveTimers("poll")) = 1 /\ fallbackInterval # 0

\* The statuses of the stages of an entry that have statistics.
StageStatuses(e) == {e.stage_stats[k] : k \in Range(stageKeys)} \ {Absent}

\* The precedence table: error, then running, then ok, else enqueued.
Precedence(e) ==
  IF e.status = "error" \/ "error" \in StageStatuses(e) THEN "error"
  ELSE IF e.status = "running" \/ "running" \in StageStatuses(e) THEN "running"
  ELSE IF e.status = "ok" THEN "ok"
  ELSE "enqueued"

\* C12: for every combination of the entry status and the four stage
\* statuses, each stage possibly absent, the derived overall status is the
\* one of the precedence table, one of the four statuses, and it is the
\* status the status filter selects by.
C12_OverallStatus ==
  \A i \in 1..Len(csvData) :
    LET e == csvData[i]
    IN /\ getOverallStatus(e) = Precedence(e)
       /\ getOverallStatus(e) \in Statuses
       /\ statusFilter # {} => (e \in Range(view) <=> Precedence(e) \in statusFilter)

\* An entry with status ok, a stage running, a stage in error and a stage
\* without statistics, shown under the filter for error.
C12_Witness ==
  /\ Len(csvData) = 1 /\ csvData[1].status = "ok"
  /\ csvData[1].stage_stats["sampling"] = "running"
  /\ csvData[1].stage_stats["gemini_query"] = "error"
  /\ csvData[1].stage_stats["normalization"] = Absent
  /\ statusFilter = {"error"} /\ view = csvData

\* An entry without its id, and the entries of a sequence without theirs.
Content(e) == [e EXCEPT !.id = 0]
Contents(q) == [i \in 1..Len(q) |-> Content(q[i])]

\* The priority an entry sorts by: a missing priority counts as 3.
Priority(e) == IF e.priority = 0 THEN 3 ELSE e.priority

\* The entries A, B and C of the scenario: priority 3, insertion dates
\* t1 > t2 > t3.
ScenarioA ==
  Entry(<<"a", ".", "c", "s", "v">>, "ok", NoStages, 3, "Gemini 2.5 Flash", <<>>, 3)
ScenarioB ==
  Entry(<<"a", ".", "c", "s", "v">>, "running", NoStages, 3, "Gemini 2.5 Flash", <<>>, 2)
ScenarioC ==
  Entry(<<"a", ".", "c", "s", "v">>, "error", NoStages, 3, "Gemini 2.5 Flash", <<>>, 1)

\* C13: with the sort key 'priority', ascending, and no priority filter,
\* every running entry precedes every entry that is not running; among
\* entries equal on that the lower priority comes first; among entries equal
\* on both the later insertion date comes first.  A, B and C of the
\* scenario are shown as [B, A, C] whatever their order in the snapshot.
C13_DefaultSort ==
  (sortConfig = DefaultSort /\ priorityFilter = {}) =>
    /\ \A i, j \in 1..Len(view) : i < j =>
          LET a == view[i]
              b == view[j]
              sameRunning == (a.status = "running") <=> (b.status = "running")
          IN /\ b.status = "running" => a.status = "running"
             /\ sameRunning => Priority(a) <= Priority(b)
             /\ (sameRunning /\ Priority(a) = Priority(b)) =>
                   a.insertion_date >= b.insertion_date
    /\ (Len(csvData) = 3 /\ Range(Contents(csvData)) = {ScenarioA, ScenarioB, ScenarioC}) =>
          Contents(view) = <<ScenarioB, ScenarioA, ScenarioC>>

\* The snapshot [C, A, B] of the scenario shown as [B, A, C].
C13_Witness ==
  /\ sortConfig = DefaultSort /\ priorityFilter = {}
  /\ Contents(csvData) = <<ScenarioC, ScenarioA, ScenarioB>>
  /\ Contents(view) = <<ScenarioB, ScenarioA, ScenarioC>>

Reverse(q) == [i \in 1..Len(q) |-> q[Len(q) + 1 - i]]

\* The entries shown are pairwise told apart by the comparator of the
\* current sort key.
Distinguished ==
  \A i, j \in 1..Len(view) : i # j => comparison(Page, view[i], view[j]) # 0

\* C18: a click that changes only the direction of the sort negates the
\* result of the comparator for every pair of entries, and when the entries
\* shown are pairwise told apart by the comparator the new order is the
\* reverse of the old one, for the priority key and for the other keys.
C18_DescendingIsReverse ==
  [][(sortConfig'.key = sortConfig.key /\ sortConfig'.direction # sortConfig.direction) =>
       /\ \A i, j \in 1..Len(csvData) :
             compare([Page EXCEPT !.sortConfig = sortConfig'], csvData[i], csvData[j])
               = 0 - compare(Page, csvData[i], csvData[j])
       /\ Distinguished => view' = Reverse(view)]_vars

\* Three entries of different status, priority and date after the second
\* click on the priority column.
C18_Witness ==
  /\ sortConfig = [key |-> "priority", direction |-> "descending"]
  /\ Len(view) = 3 /\ Distinguished
  /\ view[1].status # "running" /\ view[3].status = "running"
  /\ view[1].priority = 3 /\ view[2].priority = 1

\* The rank of a derived status in the secondary order.
StatusOrder(st) ==
  CASE st = "enqueued" -> 1 [] st = "ok" -> 2 [] st = "error" -> 3 [] OTHER -> 0

\* C19: under the sort key 'priority', ascending, two entries that tie on
\* priority-filter membership, on running or not, on priority and on
\* insertion date are shown in the order of their derived status:
\* enqueued, then ok, then error.
C19_SecondaryStatusOrder ==
  (sortConfig = DefaultSort) =>
    \A i, j \in 1..Len(view) :
      (i < j /\ comparePriority(Page, view[i], view[j]) = 0) =>
        StatusOrder(getOverallStatus(view[i])) <= StatusOrder(getOverallStatus(view[j]))

\* The filters an entry has to pass, all of them; folded: the letter case
\* of field names and extensions is folded before they are matched.
Fold(str, folded) == IF folded THEN toLowerCase(str) ELSE str

Passes(e, folded) ==
  /\ filterText # <<>> => includes(toLowerCase(e.filename), toLowerCase(filterText))
  /\ fieldsFilter # <<>> =>
       \E i \in 1..Len(e.extracted_fields) :
         includes(Fold(e.extracted_fields[i], folded), Fold(fieldsFilter, folded))
  /\ statusFilter # {} => Precedence(e) \in statusFilter
  /\ priorityFilter # {} => e.priority \in priorityFilter
  /\ fileTypeFilter # {} =>
       \E ext \in fileTypeFilter :
         \E k \in 0..Len(e.filename) :
           Fold(SubSeq(e.filename, k + 1, Len(e.filename)), folded) = ext
  /\ modelFilter # {} => e.ai_model \in modelFilter
  /\ date.from # 0 => (e.insertion_date # 0 /\ date.from <= e.insertion_date)
  /\ date.to # 0 => (e.insertion_date # 0 /\ e.insertion_date <= date.to)

\* C14 as stated: the view holds exactly the entries of the snapshot that
\* pass every active filter, the filename text matched without regard to
\* case, the field text and the extension as they are written; no filter
\* that is empty excludes anything, and the snapshot is not modified.
C14_FilteredViewAsStated ==
  /\ [](/\ Range(view) = {e \in Range(csvData) : Passes(e, FALSE)}
        /\ Len(view) = Cardinality(Range(view)))
  /\ [][csvData' = csvData]_vars

\* C14, amended: the same with the field text and the extension matched
\* without regard to case, as the filename text is.
C14_FilteredView ==
  /\ [](/\ Range(view) = {e \in Range(csvData) : Passes(e, TRUE)}
        /\ Len(view) = Cardinality(Range(view)))
  /\ [][csvData' = csvData]_vars

\* Two entries named a.csv and a.csv.zip under the filters for .csv files
\* and for the field text Mail: the first alone is shown.
C14_Witness ==
  /\ Len(csvData) = 2 /\ Len(view) = 1
  /\ fileTypeFilter = {<<".", "c", "s", "v">>}
  /\ fieldsFilter = <<"M", "a", "i", "l">>
  /\ date = DefaultDate
  /\ view[1].filename = <<"a", ".", "c", "s", "v">>
  /\ \E i \in 1..2 : csvData[i].filename = <<"a", ".", "c", "s", "v", ".", "z", "i", "p">>

\* The range of a metrics response: the earliest and the latest timestamp.
From == Min(Range(metricsData.buckets))
To == MaxOf(Range(metricsData.buckets))
HasSamples == metricsData.loaded /\ metricsData.buckets # <<>>

RECURSIVE SumSeq(_)
SumSeq(q) == IF q = <<>> THEN 0 ELSE q[1] + SumSeq(Tail(q))
PointValues(points) == [i \in 1..Len(points) |-> points[i].value]

\* C15: for a non-empty input the buckets are contiguous and do not
\* overlap and their union is [from, to): the first starts at from, each
\* starts where the one before it ends, the last ends at to, and both charts
\* have one point per bucket, empty buckets included.
C15_BucketsCoverRange ==
  HasSamples =>
    LET b == getDynamicBuckets(metricsData.buckets)
        n == Len(b.bucketStarts)
    IN /\ n >= 1
       /\ b.bucketStarts[1] = From
       /\ \A k \in 1..(n - 1) :
             b.bucketStarts[k + 1] = b.bucketStarts[k] + b.bucketSizeMs
       /\ b.bucketStarts[n] + b.bucketSizeMs = To
       /\ [k \in 1..n |-> tokenChartData[k].time] = b.bucketStarts
       /\ [k \in 1..n |-> costChartData[k].time] = b.bucketStarts

\* C16: for samples in any order the values of the points of a chart add up
\* to the sum of the charted metric over all samples: no sample is dropped
\* and none is counted twice.
C16_SumPreserved ==
  metricsData.loaded =>
    /\ SumSeq(PointValues(tokenChartData))
         = SumSeq(metricsData.token_consumption[tokenMetricType])
    /\ SumSeq(PointValues(costChartData)) = SumSeq(metricsData.cost)

\* The ladder of the bucket widths, in milliseconds.
Hours(n) == n * 3600000
Ladder(span) ==
  IF span <= Hours(2) THEN 900000
  ELSE IF span <= Hours(4) THEN 1800000
  ELSE IF span <= Hours(24) THEN Hours(1)
  ELSE IF span <= Hours(72) THEN Hours(6)
  ELSE IF span <= Hours(168) THEN Hours(12)
  ELSE Hours(24)

Spans == {a - b : a, b \in Instants} \cap Nat

\* C17: the bucket width is the one the ladder gives for the span between
\* the earliest and the latest timestamp, upper bounds included; a span of
\* three hours gives buckets of thirty minutes; the width never decreases
\* when the span grows.
C17_WidthLadder ==
  HasSamples =>
    LET b == getDynamicBuckets(metricsData.buckets)
    IN /\ b.bucketSizeMs = Ladder(To - From)
       /\ \A k \in 1..(Len(tokenChartData) - 1) :
             tokenChartData[k + 1].time - tokenChartData[k].time = Ladder(To - From)
       /\ bucketSizeMs(Hours(3)) = 1800000
       /\ \A s1 \in Spans :
             /\ s1 <= To - From => bucketSizeMs(s1) <= b.bucketSizeMs
             /\ s1 >= To - From => bucketSizeMs(s1) >= b.bucketSizeMs

\* Samples at 0 h and 3 h charted with thirty-minute buckets.
C17_Witness ==
  /\ metricsData.loaded /\ metricsData.buckets = <<0, 3 * oneHour>>
  /\ Len(tokenChartData) = 7
  /\ tokenChartData[2].time = thirtyMin
  /\ tokenMetricType = "input"

\* ------------------------------------------------- the connection lifecycle
\* A session followed through several connection attempts: the client
\* switches modes while the channel opens, fails and closes and the
\* reconnect timeouts run.
InitSession == (\E w \in BOOLEAN : New(w, FALSE, SessionQuota)) /\ NoPage

NextSession ==
  \/ \E m \in Modes, createOk \in BOOLEAN : SwitchMode(m, createOk)
  \/ \E createOk \in BOOLEAN : ReconnectFire(createOk)
  \/ \E id \in SocketIds : WsOpen(id)
  \/ \E id \in SocketIds : WsError(id)
  \/ \E id \in SocketIds : WsClose(id)

SpecSession == InitSession /\ [][NextSession]_vars

\* The sockets the manager created that are connecting or connected.
Alive == {id \in SocketIds : sockets[id] \in {"CONNECTING", "OPEN"}}

\* C21: at any time at most one reconnect attempt is pending and at most one
\* push channel created by the manager is alive, whatever close events and
\* mode switches have happened.
C21_OneReconnectOneChannel ==
  /\ Len(reconnects) <= 1
  /\ Cardinality(Alive) <= 1

\* C22: in live mode a fallback poll timer runs from a failure of the push
\* channel until a channel reports a successful open: the failure starts
\* it, and only the open event or a teardown cancels it, never the start of
\* a reconnect attempt.
C22_FallbackUntilOpen ==
  [][/\ (mode = "real" /\ op'.name \in {"wsError", "wsClose"} /\ op'.flag) =>
          fallbackInterval' # 0
     /\ (fallbackInterval # 0 /\ fallbackInterval' = 0) =>
          op'.name \in {"wsOpen", "switchMode", "cleanup"}]_vars

\* C23: while the mode is mock no fallback poll timer is running and no pull
\* request is started, however mode switches interleave with the open, error
\* and close events of a push channel.
C23_MockModeNeverPolls ==
  /\ [](mode = "mock" => ActiveTimers("poll") = {})
  /\ [][(mode = "mock" /\ mode' = "mock") => inflight' \subseteq inflight]_vars

\* The callbacks the runtime starts on its own: timers, responses, socket
\* events.
Scheduled ==
  {"mockTimer", "pollTimer", "reconnectTimer", "pullDone",
   "wsOpen", "wsMessage", "wsError", "wsClose"}

\* C24: after cleanup() the manager opens no push channel, issues no pull,
\* starts no timer and calls no listener: every timer and event still
\* pending, the reconnect timeout included, is cancelled or without effect.
C24_CleanupIsFinal ==
  [][(op.name = "cleanup" /\ op'.name \in Scheduled) =>
       /\ \A id \in SocketIds : sockets'[id] = "CONNECTING" => sockets[id] = "CONNECTING"
       /\ inflight' \subseteq inflight
       /\ \A id \in TimerIds : timers'[id].kind # "none" => timers[id] = timers'[id]
       /\ Len(reconnects') <= Len(reconnects)
       /\ called' = <<>>
       /\ errCalled' = <<>>]_vars

\* A completed update: a push message that parses, a pull that succeeded, a
\* mock generation.
Completed(o) ==
  \/ o.name = "pullDone" /\ o.flag
  \/ o.name = "wsMessage" /\ JSONParse(o.arg).ok
  \/ o.name = "mockTimer"
  \/ o.name = "forceRefresh" /\ o.flag
  \/ o.name = "switchMode" /\ o.flag /\ o.arg = "mock"

\* C25: snapshot updates are last-write-wins with no cancellation: the
\* response of a pull replaces the snapshot and is dispatched to the data
\* listeners whatever forceRefresh or switchMode was called since the
\* request left, and the snapshot is always the payload of the update that
\* completed last, push, pull or mock generation.
C25_LastWriteWins ==
  [][/\ (op'.name = "pullDone" /\ op'.flag) =>
          /\ currentData' \in PullPayloads
          /\ called' = Dispatch(listeners, currentData')
     /\ (op'.name = "wsMessage" /\ JSONParse(op'.arg).ok) =>
          currentData' = JSONParse(op'.arg).value
     /\ (op'.name = "mockTimer" \/ (op'.name = "forceRefresh" /\ op'.flag)) =>
          currentData' \in MockUpdates
     /\ (op'.name = "switchMode" /\ op'.flag /\ op'.arg = "mock") =>
          currentData' = "mock0"
     /\ ~Completed(op') => currentData' = currentData]_vars

\* --------------------------------------------- callbacks that re-enter
\* Clients whose data callbacks call back into the manager, besides one
\* that only takes the snapshot; cleanup() between them lets the callbacks
\* be registered in every order.
ReentrantCallers == {"d1", "dDrop", "dAdd"}

NextReentrant ==
  \/ \E l \in ReentrantCallers : Subscribe(l, NoListener, FALSE)
  \/ Cleanup
  \/ \E upd \in MockUpdates : ForceRefresh(upd)
  \/ \E id \in TimerIds, upd \in MockUpdates : MockTimerFire(id, upd)
  \/ \E kind \in PullKinds, ok \in BOOLEAN, data \in PullPayloads, more \in BOOLEAN :
        PullDone(kind, ok, data, more)

SpecReentrant == Init /\ [][NextReentrant]_vars

\* How often a callback was called; a call of dAdd with a mock update has
\* subscribe call d2 once, which is no call of the dispatch pass.
Calls(l, q) == Cardinality({i \in 1..Len(q) : q[i][1] = l})
Replays(l, q) ==
  IF l = "d2"
  THEN Cardinality({i \in 1..Len(q) : q[i][1] = "dAdd" /\ q[i][2] \in MockUpdates})
  ELSE 0
PassCalls(l, q) == Calls(l, q) - Replays(l, q)

\* C26: a dispatch pass calls exactly the listeners that were registered
\* when the pass began, each exactly once, also when a listener subscribes
\* or unsubscribes from within its callback.
C26_DispatchOverSnapshot ==
  [][(\/ op'.name = "mockTimer"
      \/ op'.name = "forceRefresh" /\ op'.flag
      \/ op'.name = "pullDone" /\ op'.flag) =>
       \A l \in DataListeners :
          PassCalls(l, called') = IF l \in Range(listeners) THEN 1 ELSE 0]_vars

\* ------------------------------------------------------ missing priorities
\* Entries with and without a priority; the user toggles values of the
\* priority filter and sorts by priority.
PriorityEntries ==
  {Entry(<<"a", ".", "c", "s", "v">>, st, NoStages, pr, "Gemini 2.5 Flash", <<>>, t) :
     st \in {"ok", "running"}, pr \in {0, 1, 3}, t \in {1, 2}}

InitPriority ==
  /\ ManagerIdle
  /\ ChartIs(NoMetrics, "total")
  /\ \E q \in Snapshots(PriorityEntries, MaxEntries) :
        TableIs([FirstPage EXCEPT !.csvData = q, !.date = NoDate])

NextPriority ==
  \/ \E value \in {1, 3} : SetPriorityFilter(value)
  \/ requestSort("priority")

SpecPriority == InitPriority /\ [][NextPriority]_vars

\* C27: an entry without a priority counts as priority 3 wherever the
\* priority is read: it passes the priority filter exactly when 3 is
\* selected, and it is sorted, by filter membership and by number, as an
\* entry of priority 3.
C27_MissingPriorityIsThree ==
  /\ priorityFilter # {} =>
       \A i \in 1..Len(csvData) :
          (\E j \in 1..Len(view) : view[j] = csvData[i])
            <=> Priority(csvData[i]) \in priorityFilter
  /\ sortConfig = DefaultSort =>
       \A i, j \in 1..Len(view) :
          (i < j /\ ((view[i].status = "running") <=> (view[j].status = "running"))) =>
             Priority(view[i]) <= Priority(view[j])

\* The events of a WebSocket.
SocketEvents == {"wsOpen", "wsMessage", "wsError", "wsClose"}

\* C28: once switchMode('mock') has returned, the events of the push channel
\* of the live session before it (message, open, error, close, also of a
\* channel that was still connecting) neither replace the snapshot nor call
\* a data or an error listener.
C28_OldChannelIsSilent ==
  [][(mode = "mock" /\ op'.name \in SocketEvents) =>
       /\ currentData' = currentData
       /\ called' = <<>>
       /\ errCalled' = <<>>]_vars

\* C29: a push message or a pull response notifies the error listeners only
\* if it left the snapshot unchanged: the exception of a data listener during
\* the dispatch of a payload that was installed is not reported to the error
\* listeners as a failure to parse or to fetch.
C29_ErrorsOnlyWithoutInstall ==
  [][(op'.name \in {"wsMessage", "pullDone"} /\ errCalled' # <<>>) =>
       /\ currentData' = currentData
       /\ called' = <<>>]_vars

\* C30: switchMode neither adds nor removes a data or an error listener:
\* every listener registered before the switch is registered after it and
\* receives the first snapshot the new mode emits; only cleanup() and the
\* function subscribe returned remove listeners.
C30_SwitchKeepsListeners ==
  [][/\ op'.name = "switchMode" =>
          /\ listeners' = listeners
          /\ errorListeners' = errorListeners
     /\ (op'.name = "switchMode" /\ op'.flag /\ op'.arg = "mock") =>
          called' = Dispatch(listeners, "mock0")
     /\ (op.name = "switchMode" /\ op.flag /\ op.arg = "real" /\ Completed(op')) =>
          called' = Dispatch(listeners, currentData')
     /\ (\E l \in Range(listeners) : l \notin Range(listeners')) =>
          op'.name \in {"cleanup", "unsubscribe"}
     /\ (\E e \in Range(errorListeners) : e \notin Range(errorListeners')) =>
          op'.name \in {"cleanup", "unsubscribe"}]_vars

====
